---- MODULE Spec2Model ----
(***************************************************************************)
(* Model of start_mirt_pipeline.py: the driver that parses the command     *)
(* line, then runs the selected stages generate / train / visualize / test *)
(* against external collaborators and the file system.                     *)
(*                                                                         *)
(* Strings (file names, paths, run identifiers, file contents) are         *)
(* sequences of one-character strings, so that formatting, splitting and   *)
(* Python's byte-wise string comparison are computed, not assumed.         *)
(***************************************************************************)
EXTENDS Integers, Sequences, FiniteSets, TLC

VARIABLES
    arguments,      \* the argparse namespace (flags, options, datetime)
    pc,             \* position of the single thread of control
    params,         \* run_with_arguments' local `params` (line 190)
    out_dir_name,   \* generate_model_with_parameters' local (line 161)
    dirs,           \* directories that exist on the file system
    files,          \* file system: path -> content
    files0,         \* the file system as it was when the run started
    calls,          \* external collaborators invoked so far, in order
    stdout,         \* what has been printed
    started,        \* stages whose if-body has been entered, in order
    finished,       \* stages whose if-body has run to its end
    trainer_result, \* what the external trainer reported
    npz_files,      \* get_latest_parameter_file_name's sorted listing
    latest_model,   \* save_model's local `latest_model`
    error,          \* the exception that ended the run, if any
    namer_in,       \* inputs of the gen_param_str harness (SpecNamer)
    namer_out       \* outputs of the gen_param_str harness (SpecNamer)

vars == <<arguments, pc, params, out_dir_name, dirs, files, files0, calls, stdout, started,
          finished, trainer_result, npz_files, latest_model, error,
          namer_in, namer_out>>

pipeline_vars == <<arguments, pc, params, out_dir_name, dirs, files, files0, calls, stdout,
                   started, finished, trainer_result, npz_files, latest_model,
                   error>>

(***************************************************************************)
(* Bounds of the model.                                                    *)
(***************************************************************************)
MaxAbilities == 1
MaxFiles == 3
MaxTsLen == 2

(***************************************************************************)
(* Strings.                                                                *)
(***************************************************************************)
\* The characters the model uses, in ASCII (byte) order.
Alphabet ==
    <<" ", "-", ".", "/", "0", "1", "2", "3", "4", "5", "6", "7", "8", "9",
      ":", "_", "a", "b", "c", "d", "e", "f", "g", "h", "i", "j", "k", "l",
      "m", "n", "o", "p", "q", "r", "s", "t", "u", "v", "w", "x", "y", "z">>

Ord(c) == CHOOSE i \in 1..Len(Alphabet) : Alphabet[i] = c

\* Python 2 str comparison s < t: byte-wise lexicographic, a proper prefix
\* is smaller.
StrLess(s, t) ==
    \E i \in 1..(Len(t)) :
        /\ \A j \in 1..(i - 1) : j <= Len(s) /\ s[j] = t[j]
        /\ \/ i = Len(s) + 1
           \/ i <= Len(s) /\ Ord(s[i]) < Ord(t[i])

StrLessEq(s, t) == s = t \/ StrLess(s, t)

Digits == <<"0", "1", "2", "3", "4", "5", "6", "7", "8", "9">>

\* str(n) / "%s" % n for an int: decimal digits, "-" for a negative.
RECURSIVE Str(_)
Str(n) ==
    IF n < 0 THEN <<"-">> \o Str(-n)
    ELSE IF n < 10 THEN <<Digits[n + 1]>>
    ELSE Str(n \div 10) \o <<Digits[(n % 10) + 1]>>

\* fname.split('_')[-1]: what follows the last '_' (all of it if none).
LastSegment(fname) ==
    LET cuts == {i \in 1..Len(fname) : fname[i] = "_"}
        last == IF cuts = {} THEN 0
                ELSE CHOOSE i \in cuts : \A j \in cuts : j <= i
    IN  SubSeq(fname, last + 1, Len(fname))

IsPrefix(p, s) == Len(p) <= Len(s) /\ SubSeq(s, 1, Len(p)) = p

(***************************************************************************)
(* gen_param_str and the paths built from it.                              *)
(***************************************************************************)
TimeTag == <<"t", "i", "m", "e">>
NoTimeTag == <<"n", "o", "_", "t", "i", "m", "e">>

\* A plausible slip: the time tag left out of the identifier.
gen_param_str_no_tag(a) == Str(a.abilities) \o <<"_">> \o a.datetime

\* "%s_%s_%s" % (arguments.abilities, time_str, arguments.datetime)
gen_param_str(a) ==
    LET time_str == IF a.time THEN TimeTag ELSE NoTimeTag
    IN  Str(a.abilities) \o <<"_">> \o time_str \o <<"_">> \o a.datetime

RocsName == <<"r", "o", "c", "s", "/">>
TrainResponses ==
    <<"t", "r", "a", "i", "n", ".", "r", "e", "s", "p", "o", "n", "s", "e", "s">>
TestResponses ==
    <<"t", "e", "s", "t", ".", "r", "e", "s", "p", "o", "n", "s", "e", "s">>

\* roc_dir = arguments.model_directory + 'rocs/'
RocDir(a) == a.model_directory \o RocsName

\* A plausible slip: the resolver builds the identifier without the tag.
ArtifactDirNoTag(a) == a.model_directory \o gen_param_str_no_tag(a) \o <<"/">>

\* arguments.model_directory + gen_param_str(arguments) + '/'
ArtifactDir(a) == a.model_directory \o gen_param_str(a) \o <<"/">>

(***************************************************************************)
(* The file system.                                                        *)
(***************************************************************************)
Absent == <<"#">>
EmptyFile == <<>>
OldModel == <<"o", "l", "d">>
Responses == <<"r", "e", "s", "p">>
RocData == <<"r", "o", "c">>

ReadFile(fs, p) == IF p \in DOMAIN fs THEN fs[p] ELSE Absent

WriteFile(fs, p, c) == [q \in (DOMAIN fs) \cup {p} |-> IF q = p THEN c ELSE fs[q]]

\* os.listdir(d): the names of the entries directly in d.
ListDir(fs, d) ==
    {SubSeq(f, Len(d) + 1, Len(f)) :
        f \in {g \in DOMAIN fs :
                 /\ IsPrefix(d, g)
                 /\ Len(g) > Len(d)
                 /\ \A i \in (Len(d) + 1)..Len(g) : g[i] # "/"}}

\* open(dst, 'wb'): the destination exists and is empty.
TruncateFile(fs, dst) == WriteFile(fs, dst, EmptyFile)

\* A plausible slip: source and destination exchanged.
CopyFileSwapped(fs, src, dst) == WriteFile(fs, src, ReadFile(fs, dst))

\* A plausible slip: the snapshot moved (shutil.move) instead of copied.
CopyFileMove(fs, src, dst) ==
    [q \in ((DOMAIN fs) \cup {dst}) \ {src} |->
        IF q = dst THEN ReadFile(fs, src) ELSE fs[q]]

\* shutil.copyfile(src, dst) run to its end: dst holds src's bytes.
CopyFile(fs, src, dst) == WriteFile(fs, dst, ReadFile(fs, src))

\* mkdir_p: the directory and its parents, no complaint if present.
MkdirP(ds, d) == ds \cup {SubSeq(d, 1, i) : i \in {j \in 1..Len(d) : d[j] = "/"}}

\* The orders in which os.listdir may return a set of names.
Orders(S) ==
    {o \in [1..Cardinality(S) -> S] : \A i, j \in DOMAIN o : i # j => o[i] # o[j]}

(***************************************************************************)
(* get_latest_parameter_file_name's selection.                             *)
(***************************************************************************)
\* key=lambda fname: fname.split('_')[-1]
SortKey(fname) == LastSegment(fname)

\* Where list.sort (stable) puts x in an already sorted list: after every
\* element whose key is not greater than x's.
InsertByKey(sorted, x) ==
    LET n == Cardinality({i \in 1..Len(sorted) :
                            StrLessEq(SortKey(sorted[i]), SortKey(x))})
    IN  SubSeq(sorted, 1, n) \o <<x>> \o SubSeq(sorted, n + 1, Len(sorted))

\* npz_files.sort(key=...)
RECURSIVE SortByKey(_)
SortByKey(l) ==
    IF l = <<>> THEN <<>>
    ELSE InsertByKey(SortByKey(SubSeq(l, 1, Len(l) - 1)), l[Len(l)])

\* A plausible slip: npz_files[0] instead of npz_files[-1].
PickFirst(sorted) == sorted[1]

\* npz_files[-1]
PickLast(sorted) == sorted[Len(sorted)]

\* A plausible slip: an empty listing guarded, the bare directory returned.
ReturnLatestGuarded(path, sorted) ==
    [raised |-> FALSE,
     value |-> IF sorted = <<>> THEN path ELSE path \o PickLast(sorted)]

\* return path + npz_files[-1]: indexing an empty list raises IndexError.
ReturnLatest(path, sorted) ==
    IF sorted = <<>>
    THEN [raised |-> TRUE, value |-> <<>>]
    ELSE [raised |-> FALSE, value |-> path \o PickLast(sorted)]

(***************************************************************************)
(* The chain of `if arguments.<stage>:` statements of run_with_arguments.  *)
(***************************************************************************)
Stages == <<"generate", "train", "visualize", "test">>

Rank(s) == CHOOSE i \in 1..4 : Stages[i] = s

Selected(a, s) ==
    CASE s = "generate" -> a.generate
      [] s = "train" -> a.train
      [] s = "visualize" -> a.visualize
      [] s = "test" -> a.test

\* A plausible slip: the train flag is not consulted.
RECURSIVE NextStageAlwaysTrain(_, _)
NextStageAlwaysTrain(a, i) ==
    IF i > 4 THEN "none"
    ELSE IF Stages[i] = "train" \/ Selected(a, Stages[i]) THEN Stages[i]
    ELSE NextStageAlwaysTrain(a, i + 1)

\* A plausible slip: the test stage checked before the visualize stage.
NextStageTestFirst(a, i) ==
    LET order == <<1, 2, 4, 3>>
        later == {j \in i..4 : Selected(a, Stages[order[j]])}
    IN  IF later = {} THEN "none"
        ELSE Stages[order[CHOOSE j \in later : \A k \in later : j <= k]]

\* The stage whose body is entered next when control reaches the i-th `if`
\* (lines 191, 196, 212, 220); "none" when control falls off the end.
RECURSIVE NextStage(_, _)
NextStage(a, i) ==
    IF i > 4 THEN "none"
    ELSE IF Selected(a, Stages[i]) THEN Stages[i]
    ELSE NextStage(a, i + 1)

EntryLabel(s) ==
    CASE s = "generate" -> "generate_responses"
      [] s = "train" -> "make_necessary_directories"
      [] s = "visualize" -> "generate_roc_curve_from_model"
      [] s = "test" -> "adaptive_pretest"
      [] s = "none" -> "done"

(***************************************************************************)
(* Inputs.                                                                 *)
(***************************************************************************)
ModelDirectory == <<"m", "/">>
InitialDirs == {ModelDirectory, <<"d", "/">>}
ModelPath == <<"m", "/", "m", "o", "d", "e", "l", ".", "j", "s", "o", "n">>
DataFile == <<"d", "/", "a", "l", "l", ".", "r", "e", "s", "p", "o", "n", "s", "e", "s">>

\* str(datetime.datetime.now()) at two instants.
Timestamps == {<<"0", "9", ":", "0", "0">>, <<"0", "9", ":", "0", "1">>}

NotSet == <<>>

\* The command lines of a run.
ArgumentSets ==
    [generate : BOOLEAN, train : BOOLEAN, visualize : BOOLEAN, test : BOOLEAN,
     time : BOOLEAN, abilities : 0..MaxAbilities, workers : {1},
     num_epochs : {2}, data_file : {DataFile},
     model_directory : {ModelDirectory}, model : {ModelPath},
     datetime : {NotSet}]

\* Names of snapshot files the external trainer may write.
SnapshotNames ==
    {<<"a", "_", "1">>, <<"a", "_", "2">>, <<"a", "_", "1", "0">>,
     <<"a", "_", "0", "1">>, <<"a", "_", "0", "2">>, <<"b", "_", "2">>}

\* The content the trainer writes into the snapshot called n.
Snapshot(n) == <<"n", "p", "z", ":">> \o n

\* How the external trainer's invocation can end: it returns reporting
\* success, it returns reporting failure, or it raises.
TrainerOutcomes == {"success", "failure", "raised"}

\* A plausible slip: the artifact directory is never created.
NextTrainStepSkipMkdir(step) ==
    CASE step = "make_necessary_directories" -> "sep_into_train_and_test"
      [] step = "sep_into_train_and_test" -> "run_programmatically"
      [] step = "generate_model_with_parameters" -> "run_programmatically"
      [] step = "run_programmatically" -> "get_latest_parameter_file_name"
      [] step = "get_latest_parameter_file_name" -> "copyfile_open"

\* A plausible slip: the model is set up before the data is split.
NextTrainStepMkdirFirst(step) ==
    CASE step = "make_necessary_directories" -> "generate_model_with_parameters"
      [] step = "generate_model_with_parameters" -> "sep_into_train_and_test"
      [] step = "sep_into_train_and_test" -> "run_programmatically"
      [] step = "run_programmatically" -> "get_latest_parameter_file_name"
      [] step = "get_latest_parameter_file_name" -> "copyfile_open"

\* The statement that follows a step of the train stage when the step
\* returns (lines 198, 201, 207 with 162 and 174, 208 with 120 and 125).
NextTrainStep(step) ==
    CASE step = "make_necessary_directories" -> "sep_into_train_and_test"
      [] step = "sep_into_train_and_test" -> "generate_model_with_parameters"
      [] step = "generate_model_with_parameters" -> "run_programmatically"
      [] step = "run_programmatically" -> "get_latest_parameter_file_name"
      [] step = "get_latest_parameter_file_name" -> "copyfile_open"

NoError == [stage |-> "none", step |-> "none", exc |-> "none"]

(***************************************************************************)
(* Fragments shared by the actions.                                        *)
(***************************************************************************)
Call(fn, args) == calls' = Append(calls, [fn |-> fn, args |-> args])

\* Control reaches the i-th `if` of run_with_arguments.
Goto(i) ==
    LET s == NextStage(arguments, i)
    IN  /\ pc' = EntryLabel(s)
        /\ started' = IF s = "none" THEN started ELSE Append(started, s)

\* The body of stage s ran to its end.
Finish(s) ==
    /\ finished' = finished \cup {s}
    /\ Goto(Rank(s) + 1)

\* A plausible slip: each stage wrapped in try/except, the run going on
\* with the next `if`.
RaiseCaught(stage, step, exc) ==
    /\ error' = [stage |-> stage, step |-> step, exc |-> exc]
    /\ Goto(Rank(stage) + 1)
    /\ UNCHANGED finished

\* An exception leaves run_with_arguments: nothing catches it.
Raise(stage, step, exc) ==
    /\ pc' = "aborted"
    /\ error' = [stage |-> stage, step |-> step, exc |-> exc]
    /\ UNCHANGED <<started, finished>>

(***************************************************************************)
(* Initial state: a command line has been given, nothing has run.          *)
(***************************************************************************)
Init ==
    /\ arguments \in ArgumentSets
    /\ pc = "get_command_line_arguments"
    /\ params = NotSet
    /\ out_dir_name = NotSet
    /\ dirs = InitialDirs
    /\ \E m \in {Absent, OldModel} :
          files = IF m = Absent
                  THEN WriteFile(<<>>, DataFile, Responses)
                  ELSE WriteFile(WriteFile(<<>>, DataFile, Responses), ModelPath, m)
    /\ files0 = files
    /\ calls = <<>>
    /\ stdout = <<>>
    /\ started = <<>>
    /\ finished = {}
    /\ trainer_result = "not_run"
    /\ npz_files = <<>>
    /\ latest_model = NotSet
    /\ error = NoError
    /\ namer_in = <<>>
    /\ namer_out = <<>>

(***************************************************************************)
(* get_command_line_arguments (lines 46-114).                              *)
(***************************************************************************)
GetCommandLineArguments ==
    /\ pc = "get_command_line_arguments"
    /\ stdout' = IF ~(arguments.generate \/ arguments.train
                      \/ arguments.visualize \/ arguments.test)
                 THEN stdout \o <<"Must specify at least one task", "help">>
                 ELSE stdout
    /\ \E now \in Timestamps : arguments' = [arguments EXCEPT !.datetime = now]
    /\ pc' = "run_with_arguments"
    /\ UNCHANGED <<params, out_dir_name, dirs, files, files0, calls, started, finished,
                   trainer_result, npz_files, latest_model, error,
                   namer_in, namer_out>>

(***************************************************************************)
(* run_with_arguments (lines 186-221), one action per statement that calls *)
(* out of the module.                                                      *)
(***************************************************************************)
\* line 190, then the first `if`
RunWithArguments ==
    /\ pc = "run_with_arguments"
    /\ params' = gen_param_str(arguments)
    /\ Goto(1)
    /\ UNCHANGED <<arguments, out_dir_name, dirs, files, files0, calls, stdout, finished,
                   trainer_result, npz_files, latest_model, error,
                   namer_in, namer_out>>

\* lines 192-195
GenerateResponses ==
    /\ pc = "generate_responses"
    /\ Call("generate_responses.run", <<>>)
    /\ \/ /\ files' = WriteFile(files, arguments.data_file, Responses)
          /\ stdout' = stdout \o <<"Generating Responses", "Generated responses">>
          /\ Finish("generate")
          /\ UNCHANGED error
       \/ /\ stdout' = Append(stdout, "Generating Responses")
          /\ Raise("generate", "generate_responses.run", "Exception")
          /\ UNCHANGED files
    /\ UNCHANGED <<arguments, params, out_dir_name, dirs, files0, trainer_result, npz_files,
                   latest_model, namer_in, namer_out>>

\* line 198: make_necessary_directories (lines 146-149)
MakeNecessaryDirectories ==
    /\ pc = "make_necessary_directories"
    /\ Call("mkdir_p", <<RocDir(arguments)>>)
    /\ \/ /\ dirs' = MkdirP(dirs, RocDir(arguments))
          /\ pc' = NextTrainStep("make_necessary_directories")
          /\ UNCHANGED <<error, started, finished>>
       \/ /\ Raise("train", "make_necessary_directories", "OSError")
          /\ UNCHANGED dirs
    /\ UNCHANGED <<arguments, params, out_dir_name, files, files0, stdout, trainer_result,
                   npz_files, latest_model, namer_in, namer_out>>

\* line 201
SepIntoTrainAndTest ==
    /\ pc = "sep_into_train_and_test"
    /\ Call("sep_into_train_and_test", <<arguments.data_file>>)
    /\ \/ /\ arguments.data_file \in DOMAIN files
          /\ files' = WriteFile(
                        WriteFile(files,
                                  arguments.model_directory \o TrainResponses,
                                  Responses),
                        arguments.model_directory \o TestResponses, Responses)
          /\ stdout' = Append(stdout, "Training MIRT models")
          /\ pc' = NextTrainStep("sep_into_train_and_test")
          /\ UNCHANGED <<error, started, finished>>
       \/ /\ Raise("train", "sep_into_train_and_test", "Exception")
          /\ UNCHANGED <<files, stdout>>
    /\ UNCHANGED <<arguments, params, out_dir_name, dirs, files0, trainer_result, npz_files,
                   latest_model, namer_in, namer_out>>

\* line 207: generate_model_with_parameters, lines 160-162
GenerateModelWithParameters ==
    /\ pc = "generate_model_with_parameters"
    /\ LET param_str == gen_param_str(arguments)
           dir == arguments.model_directory \o param_str \o <<"/">>
       IN  /\ out_dir_name' = dir
           /\ Call("mkdir_p", <<dir>>)
           /\ \/ /\ dirs' = MkdirP(dirs, dir)
                 /\ pc' = NextTrainStep("generate_model_with_parameters")
                 /\ UNCHANGED <<error, started, finished>>
              \/ /\ Raise("train", "generate_model_with_parameters", "OSError")
                 /\ UNCHANGED dirs
    /\ UNCHANGED <<arguments, params, files, files0, stdout, trainer_result,
                   npz_files, latest_model, namer_in, namer_out>>

\* A plausible slip: '-z' appended when the time flag is not set.
MirtTrainParamsSwitchInverted(a, dir) ==
    <<<<"-", "a">>, Str(a.abilities), <<"-", "w">>, Str(a.workers),
      <<"-", "n">>, Str(a.num_epochs),
      <<"-", "f">>, a.model_directory \o TrainResponses,
      <<"-", "o">>, dir>>
    \o (IF a.time THEN <<>> ELSE <<<<"-", "z">>>>)

\* mirt_train_params, lines 165-172
MirtTrainParams(a, dir) ==
    <<<<"-", "a">>, Str(a.abilities), <<"-", "w">>, Str(a.workers),
      <<"-", "n">>, Str(a.num_epochs),
      <<"-", "f">>, a.model_directory \o TrainResponses,
      <<"-", "o">>, dir>>
    \o (IF a.time THEN <<<<"-", "z">>>> ELSE <<>>)

\* The value of the option `flag` in a parameter list.
OptionValue(ps, flag) ==
    ps[(CHOOSE i \in 1..Len(ps) : ps[i] = flag) + 1]

\* generate_model_with_parameters, lines 165-174: the external trainer runs,
\* writes any number of snapshots into its output directory, and ends in
\* one of TrainerOutcomes.  What it returns is not looked at (line 174).
RunProgrammatically ==
    /\ pc = "run_programmatically"
    /\ LET mirt_train_params == MirtTrainParams(arguments, out_dir_name)
           dir == OptionValue(mirt_train_params, <<"-", "o">>)
       IN  /\ Call("mirt_train_EM.run_programmatically", mirt_train_params)
           /\ \E written \in SUBSET SnapshotNames :
                 /\ Cardinality(written) <= MaxFiles
                 /\ files' = [q \in (DOMAIN files) \cup {dir \o n : n \in written} |->
                                IF q \in {dir \o n : n \in written}
                                THEN Snapshot(SubSeq(q, Len(dir) + 1, Len(q)))
                                ELSE files[q]]
    /\ \E outcome \in TrainerOutcomes :
          /\ trainer_result' = outcome
          /\ IF outcome = "raised"
             THEN Raise("train", "run_programmatically", "Exception")
             ELSE /\ pc' = NextTrainStep("run_programmatically")
                  /\ UNCHANGED <<error, started, finished>>
    /\ UNCHANGED <<arguments, params, out_dir_name, dirs, files0, stdout,
                   npz_files, latest_model, namer_in, namer_out>>

\* line 208: save_model calls get_latest_parameter_file_name (lines 128-137)
GetLatestParameterFileName ==
    /\ pc = "get_latest_parameter_file_name"
    /\ LET path == ArtifactDir(arguments)
       IN  /\ Call("os.listdir", <<path>>)
           /\ IF path \notin dirs
              THEN /\ Raise("train", "get_latest_parameter_file_name", "OSError")
                   /\ UNCHANGED <<npz_files, latest_model>>
              ELSE \E listing \in Orders(ListDir(files, path)) :
                     LET sorted == SortByKey(listing)
                         result == ReturnLatest(path, sorted)
                     IN  /\ npz_files' = sorted
                         /\ IF result.raised
                            THEN /\ Raise("train", "get_latest_parameter_file_name",
                                          "IndexError")
                                 /\ UNCHANGED latest_model
                            ELSE /\ latest_model' = result.value
                                 /\ pc' = NextTrainStep("get_latest_parameter_file_name")
                                 /\ UNCHANGED <<error, started, finished>>
    /\ UNCHANGED <<arguments, params, out_dir_name, dirs, files, files0, stdout,
                   trainer_result, namer_in, namer_out>>

\* save_model, lines 124-125: shutil.copyfile opens the source for reading
\* and the destination for writing, which truncates it.
CopyFileOpen ==
    /\ pc = "copyfile_open"
    /\ stdout' = Append(stdout, "Saving model to")
    /\ Call("shutil.copyfile", <<latest_model, arguments.model>>)
    /\ \/ /\ files' = TruncateFile(files, arguments.model)
          /\ pc' = "copyfile_write"
          /\ UNCHANGED <<error, started, finished>>
       \/ /\ Raise("train", "shutil.copyfile", "IOError")
          /\ UNCHANGED files
    /\ UNCHANGED <<arguments, params, out_dir_name, dirs, files0,
                   trainer_result, npz_files, latest_model, namer_in, namer_out>>

\* save_model, line 125: shutil.copyfile copies the bytes; the write can
\* fail or be interrupted after the destination was truncated.
CopyFileWrite ==
    /\ pc = "copyfile_write"
    /\ \/ /\ files' = CopyFile(files, latest_model, arguments.model)
          /\ Finish("train")
          /\ UNCHANGED error
       \/ /\ Raise("train", "shutil.copyfile", "IOError")
          /\ UNCHANGED files
    /\ UNCHANGED <<arguments, params, out_dir_name, dirs, files0, calls, stdout,
                   trainer_result, npz_files, latest_model, namer_in, namer_out>>

\* line 215: generate_roc_curve_from_model (lines 177-183).  The evaluator
\* reads the model and the test subset and writes the report file.
GenerateRocCurveFromModel ==
    /\ pc = "generate_roc_curve_from_model"
    /\ LET roc_dir == arguments.model_directory \o RocsName
           roc_file == roc_dir \o arguments.datetime
           test_file == arguments.model_directory \o TestResponses
       IN  /\ Call("generate_predictions.load_and_simulate_assessment",
                   <<arguments.model, roc_file, test_file>>)
           /\ \/ /\ arguments.model \in DOMAIN files
                 /\ test_file \in DOMAIN files
                 /\ roc_dir \in dirs
                 /\ files' = WriteFile(files, roc_file, RocData)
                 /\ pc' = "show_roc"
                 /\ UNCHANGED <<error, started, finished>>
              \/ /\ Raise("visualize", "generate_roc_curve_from_model", "Exception")
                 /\ UNCHANGED files
    /\ UNCHANGED <<arguments, params, out_dir_name, dirs, files0, stdout,
                   trainer_result, npz_files, latest_model, namer_in, namer_out>>

\* lines 216-217
ShowRoc ==
    /\ pc = "show_roc"
    /\ stdout' = Append(stdout, "visualizing for")
    /\ Call("visualize.show_roc", <<params>>)
    /\ \/ /\ pc' = "show_exercises"
          /\ UNCHANGED <<error, started, finished>>
       \/ Raise("visualize", "visualize.show_roc", "Exception")
    /\ UNCHANGED <<arguments, params, out_dir_name, dirs, files, files0,
                   trainer_result, npz_files, latest_model, namer_in, namer_out>>

\* line 218
ShowExercises ==
    /\ pc = "show_exercises"
    /\ Call("visualize.show_exercises", <<arguments.model>>)
    /\ \/ /\ Finish("visualize")
          /\ UNCHANGED error
       \/ Raise("visualize", "visualize.show_exercises", "Exception")
    /\ UNCHANGED <<arguments, params, out_dir_name, dirs, files, files0, stdout,
                   trainer_result, npz_files, latest_model, namer_in, namer_out>>

\* line 221
AdaptivePretest ==
    /\ pc = "adaptive_pretest"
    /\ Call("adaptive_pretest.main", <<arguments.model>>)
    /\ \/ /\ Finish("test")
          /\ UNCHANGED error
       \/ Raise("test", "adaptive_pretest.main", "Exception")
    /\ UNCHANGED <<arguments, params, out_dir_name, dirs, files, files0, stdout,
                   trainer_result, npz_files, latest_model, namer_in, namer_out>>

Next ==
    \/ GetCommandLineArguments
    \/ RunWithArguments
    \/ GenerateResponses
    \/ MakeNecessaryDirectories
    \/ SepIntoTrainAndTest
    \/ GenerateModelWithParameters
    \/ RunProgrammatically
    \/ GetLatestParameterFileName
    \/ CopyFileOpen
    \/ CopyFileWrite
    \/ GenerateRocCurveFromModel
    \/ ShowRoc
    \/ ShowExercises
    \/ AdaptivePretest

Spec == Init /\ [][Next]_vars

(***************************************************************************)
(* gen_param_str on its own: two run configurations are drawn and named.   *)
(***************************************************************************)
NamerTimestamps ==
    Timestamps \cup UNION {[1..n -> {"1", "_"}] : n \in 0..MaxTsLen}

NamerInputs ==
    [abilities : {-1, 0, 1, 10, 11}, time : BOOLEAN, datetime : NamerTimestamps]

InitNamer ==
    /\ namer_in \in NamerInputs \X NamerInputs
    /\ namer_out = <<>>
    /\ arguments \in {a \in ArgumentSets :
                        ~(a.generate \/ a.train \/ a.visualize \/ a.test)
                        /\ ~a.time /\ a.abilities = 0}
    /\ pc = "gen_param_str"
    /\ params = NotSet
    /\ out_dir_name = NotSet
    /\ dirs = InitialDirs
    /\ files = WriteFile(<<>>, DataFile, Responses)
    /\ files0 = files
    /\ calls = <<>>
    /\ stdout = <<>>
    /\ started = <<>>
    /\ finished = {}
    /\ trainer_result = "not_run"
    /\ npz_files = <<>>
    /\ latest_model = NotSet
    /\ error = NoError

ApplyNamer ==
    /\ pc = "gen_param_str"
    /\ namer_out = <<>>
    /\ namer_out' = <<gen_param_str(namer_in[1]), gen_param_str(namer_in[2])>>
    /\ UNCHANGED namer_in
    /\ UNCHANGED pipeline_vars

NextNamer == ApplyNamer

SpecNamer == InitNamer /\ [][NextNamer]_vars

(***************************************************************************)
(* Properties.                                                             *)
(***************************************************************************)
\* The stage a collaborator belongs to.
StageOfCall(fn) ==
    CASE fn = "generate_responses.run" -> "generate"
      [] fn \in {"mkdir_p", "sep_into_train_and_test",
                 "mirt_train_EM.run_programmatically", "os.listdir",
                 "shutil.copyfile"} -> "train"
      [] fn \in {"generate_predictions.load_and_simulate_assessment",
                 "visualize.show_roc", "visualize.show_exercises"} -> "visualize"
      [] fn = "adaptive_pretest.main" -> "test"

Called(fn) == \E i \in 1..Len(calls) : calls[i].fn = fn

CalledStage(s) == \E i \in 1..Len(calls) : StageOfCall(calls[i].fn) = s

SelectedStages == {s \in {"generate", "train", "visualize", "test"} :
                     Selected(arguments, s)}

StartedStages == {started[i] : i \in 1..Len(started)}

ModelNow == ReadFile(files, arguments.model)
ModelBefore == ReadFile(files0, arguments.model)

\* The names in the run's artifact directory, and the one save_model took.
ArtifactNames == ListDir(files, ArtifactDir(arguments))
SelectedName ==
    SubSeq(latest_model, Len(ArtifactDir(arguments)) + 1, Len(latest_model))

\* C1: the selected stages are started in the order generate, train,
\* visualize, test; a stage starts only after every stage started before it
\* has finished; a stage that was not selected is never started, nor is any
\* of its collaborators invoked; a run that ends normally has started every
\* selected stage.
C1_StagesInFixedOrder ==
    /\ \A i \in 1..Len(started) : started[i] \in SelectedStages
    /\ \A i, j \in 1..Len(started) :
          i < j => Rank(started[i]) < Rank(started[j])
    /\ \A i \in 1..(Len(started) - 1) : started[i] \in finished
    /\ \A i \in 1..Len(calls) : StageOfCall(calls[i].fn) \in StartedStages
    /\ \A i, j \in 1..Len(calls) :
          i < j => Rank(StageOfCall(calls[i].fn)) <= Rank(StageOfCall(calls[j].fn))
    /\ pc = "done" => StartedStages = SelectedStages /\ finished = SelectedStages

C1_Witness ==
    /\ pc = "done"
    /\ started = <<"generate", "train", "visualize", "test">>

\* C2: once the generate stage or a step of the train stage has failed
\* (an exception, or the trainer reporting failure), no collaborator of the
\* visualize or test stage is invoked.
C2_FailureStopsLaterStages ==
    (error.stage \in {"generate", "train"} \/ trainer_result = "failure")
        => ~CalledStage("visualize") /\ ~CalledStage("test")

\* C3: once the external trainer has reported failure (by raising or by the
\* status it returns), shutil.copyfile is not called and the model path
\* holds what it held before the run.
C3_NoPromotionAfterTrainerFailure ==
    trainer_result \in {"failure", "raised"}
        => ~Called("shutil.copyfile") /\ ModelNow = ModelBefore

\* C4 as stated: with visualize and test both selected, a run that ended in
\* a failure of the visualize stage has invoked the adaptive test.
C4_TestAttemptedAfterVisualizeFailure ==
    (arguments.visualize /\ arguments.test /\ error.stage = "visualize")
        => Called("adaptive_pretest.main")

\* C4 amended: a failure of the visualize stage ends the run; the test
\* stage is not started and the adaptive test is never invoked.
C4_VisualizeFailureEndsRun ==
    error.stage = "visualize"
        => /\ pc = "aborted"
           /\ "test" \notin StartedStages
           /\ ~Called("adaptive_pretest.main")

C4_Witness ==
    /\ arguments.visualize /\ arguments.test
    /\ error.stage = "visualize"
    /\ error.step = "visualize.show_roc"

\* C5: with no stage flag set, usage guidance is printed and nothing else
\* happens: no collaborator is invoked, no directory is created, no file is
\* written or changed, and the run ends without error.
C5_NoStageNoSideEffect ==
    SelectedStages = {}
        => /\ calls = <<>>
           /\ dirs = InitialDirs
           /\ files = files0
           /\ started = <<>>
           /\ error = NoError
           /\ pc # "get_command_line_arguments"
                 => \E i \in 1..Len(stdout) : stdout[i] = "help"

C5_Witness == SelectedStages = {} /\ pc = "done"

\* C6: whenever get_latest_parameter_file_name has returned, the entry it
\* returned is in the artifact directory and no entry's last '_'-segment is
\* greater, in byte-wise string order, than the returned entry's; for
\* {a_1, a_2, a_10} it is a_2 and for {a_01, a_02, a_10} it is a_10.
C6_LatestIsLexicographicMax ==
    latest_model # NotSet
        => /\ SelectedName \in ArtifactNames
           /\ \A n \in ArtifactNames :
                 StrLessEq(LastSegment(n), LastSegment(SelectedName))
           /\ ArtifactNames = {<<"a", "_", "1">>, <<"a", "_", "2">>,
                               <<"a", "_", "1", "0">>}
                 => SelectedName = <<"a", "_", "2">>
           /\ ArtifactNames = {<<"a", "_", "0", "1">>, <<"a", "_", "0", "2">>,
                               <<"a", "_", "1", "0">>}
                 => SelectedName = <<"a", "_", "1", "0">>

C6_Witness ==
    /\ latest_model # NotSet
    /\ ArtifactNames = {<<"a", "_", "1">>, <<"a", "_", "2">>, <<"a", "_", "1", "0">>}

C8_ModelIsSelectedSnapshot ==
    "train" \in finished
        => /\ SelectedName \in ArtifactNames
           /\ latest_model = ArtifactDir(arguments) \o SelectedName
           /\ ModelNow = Snapshot(SelectedName)
           /\ ModelNow = ReadFile(files, latest_model)

C8_Witness ==
    /\ "train" \in finished
    /\ ModelBefore = OldModel
    /\ Cardinality(ArtifactNames) = 2

\* C9: the model path always holds either what it held before the run or a
\* complete snapshot, never anything else.
C9_ModelPathAtomic ==
    ModelNow \in {ModelBefore} \cup {Snapshot(n) : n \in SnapshotNames}

\* C10: the identifiers of two run configurations are equal exactly when
\* the configurations agree in abilities, time flag and timestamp, and each
\* identifier reads <abilities>_<time|no_time>_<timestamp>.
C10_NamerInjective ==
    namer_out # <<>>
        => /\ (namer_out[1] = namer_out[2]) <=> (namer_in[1] = namer_in[2])
           /\ \A i \in 1..2 :
                 /\ IsPrefix(Str(namer_in[i].abilities) \o <<"_">>, namer_out[i])
                 /\ LET rest == SubSeq(namer_out[i],
                                       Len(Str(namer_in[i].abilities)) + 2,
                                       Len(namer_out[i]))
                    IN  IF namer_in[i].time
                        THEN rest = TimeTag \o <<"_">> \o namer_in[i].datetime
                        ELSE rest = NoTimeTag \o <<"_">> \o namer_in[i].datetime

C10_Witness ==
    /\ namer_out # <<>>
    /\ namer_in[1].abilities = namer_in[2].abilities
    /\ namer_in[1].time = namer_in[2].time
    /\ namer_in[1].datetime # namer_in[2].datetime
    /\ namer_out[1] # namer_out[2]

IsTrainCall(c) == StageOfCall(c.fn) = "train"

\* The calls a train stage has made so far, in order.
TrainCalls == SelectSeq(calls, IsTrainCall)

\* The positions in calls of the invocations of fn.
CallsOf(fn) == {i \in 1..Len(calls) : calls[i].fn = fn}

\* The files of the run's artifact directory with their contents.
ArtifactFiles ==
    {<<q, files[q]>> : q \in {f \in DOMAIN files : IsPrefix(ArtifactDir(arguments), f)}}

\* C11: once the command line has been parsed, a configuration with an
\* ability, worker or epoch count below 1, or with no stage selected, has
\* been rejected: the run has ended with InvalidConfiguration and nothing
\* was invoked.
C11_InvalidConfigurationRejected ==
    (/\ pc # "get_command_line_arguments"
     /\ \/ arguments.abilities < 1
        \/ arguments.workers < 1
        \/ arguments.num_epochs < 1
        \/ SelectedStages = {})
        => /\ pc = "aborted"
           /\ error.exc = "InvalidConfiguration"
           /\ calls = <<>>

\* C12: a collaborator of the visualize or test stage has been invoked only
\* if a file exists at the model path (no step removes a file, so a model
\* missing now was missing at the call).
C12_CollaboratorsOnlyWithModel ==
    (CalledStage("visualize") \/ CalledStage("test"))
        => arguments.model \in DOMAIN files

\* C13: no step other than the external trainer's run adds, removes or
\* changes a file of the run's artifact directory; the copy-out leaves the
\* selected snapshot in place.
C13_ArtifactDirectoryUntouched ==
    [][pc \notin {"get_command_line_arguments", "run_programmatically"}
          => ArtifactFiles' = ArtifactFiles]_vars

C13_Witness ==
    /\ "train" \in finished
    /\ Cardinality(ArtifactNames) = 3
    /\ \A n \in ArtifactNames :
          ReadFile(files, ArtifactDir(arguments) \o n) = Snapshot(n)

\* C14: the calls of a train stage are, in this order and each at most
\* once: mkdir_p of rocs/, the splitter, mkdir_p of the artifact directory,
\* the trainer, os.listdir, shutil.copyfile; when the trainer is invoked its
\* output directory and the two split files exist; the listing is taken
\* only after the trainer returned; a finished train stage made all six.
C14_TrainStepsInOrder ==
    LET tc == TrainCalls
        expected == <<"mkdir_p", "sep_into_train_and_test", "mkdir_p",
                      "mirt_train_EM.run_programmatically", "os.listdir",
                      "shutil.copyfile">>
    IN  /\ Len(tc) <= 6
        /\ \A i \in 1..Len(tc) : tc[i].fn = expected[i]
        /\ Len(tc) >= 1 => tc[1].args = <<arguments.model_directory \o RocsName>>
        /\ Len(tc) >= 3 =>
              tc[3].args = <<arguments.model_directory
                               \o gen_param_str(arguments) \o <<"/">>>>
        /\ Len(tc) >= 4 =>
              /\ OptionValue(tc[4].args, <<"-", "o">>) = tc[3].args[1]
              /\ tc[3].args[1] \in dirs
              /\ (arguments.model_directory \o TrainResponses) \in DOMAIN files
              /\ (arguments.model_directory \o TestResponses) \in DOMAIN files
        /\ Len(tc) >= 5 => trainer_result \in {"success", "failure"}
        /\ "train" \in finished => Len(tc) = 6

C14_Witness == "train" \in finished /\ Len(TrainCalls) = 6

\* C15: when the splitter fails the run ends there: the trainer is never
\* invoked, the artifact directory is neither asked for nor created, and
\* the model path is unchanged.
C15_SplitFailureAbortsTrain ==
    error.step = "sep_into_train_and_test"
        => /\ pc = "aborted"
           /\ ~Called("mirt_train_EM.run_programmatically")
           /\ \A i \in CallsOf("mkdir_p") :
                 calls[i].args # <<arguments.model_directory
                                     \o gen_param_str(arguments) \o <<"/">>>>
           /\ (arguments.model_directory \o gen_param_str(arguments) \o <<"/">>)
                 \notin dirs
           /\ ModelNow = ModelBefore
           /\ "train" \notin finished

C15_Witness ==
    /\ error.step = "sep_into_train_and_test"
    /\ ModelBefore = OldModel

\* C16: the file save_model took is the one the resolver returns for every
\* order in which os.listdir may list the same directory.
C16_SelectionIgnoresListingOrder ==
    latest_model # NotSet
        => \A o \in Orders(ArtifactNames) :
              ReturnLatest(ArtifactDir(arguments), SortByKey(o)).value = latest_model

\* C17: after parsing, the identifier computed at line 190 is the one of
\* the current arguments; the directory the trainer gets with -o, the
\* directory created for it and the directory the resolver lists are all
\* <model_directory><that identifier>/; show_roc is keyed by it; and the
\* report path ends in the same timestamp.
C17_OneIdentifierPerRun ==
    /\ pc \notin {"get_command_line_arguments", "run_with_arguments"}
          => /\ params = gen_param_str(arguments)
             /\ arguments.datetime \in Timestamps
             /\ SubSeq(params, Len(params) - Len(arguments.datetime) + 1,
                       Len(params)) = arguments.datetime
    /\ \A i \in CallsOf("mirt_train_EM.run_programmatically") :
          OptionValue(calls[i].args, <<"-", "o">>)
              = arguments.model_directory \o params \o <<"/">>
    /\ \A i \in CallsOf("os.listdir") :
          /\ calls[i].args = <<arguments.model_directory \o params \o <<"/">>>>
          /\ \A j \in CallsOf("mirt_train_EM.run_programmatically") :
                calls[i].args[1] = OptionValue(calls[j].args, <<"-", "o">>)
    /\ \A i \in CallsOf("visualize.show_roc") : calls[i].args = <<params>>
    /\ \A i \in CallsOf("generate_predictions.load_and_simulate_assessment") :
          calls[i].args[2]
              = arguments.model_directory \o RocsName \o arguments.datetime

C17_Witness ==
    /\ Called("os.listdir")
    /\ Called("visualize.show_roc")
    /\ pc = "done"

\* The identifier in an output directory <model_directory><identifier>/.
IdentifierOf(a, dir) == SubSeq(dir, Len(a.model_directory) + 1, Len(dir) - 1)

\* What follows the first '_' of an identifier.
AfterFirstCut(id) ==
    LET cuts == {i \in 1..Len(id) : id[i] = "_"}
        first == CHOOSE i \in cuts : \A j \in cuts : i <= j
    IN  SubSeq(id, first + 1, Len(id))

\* C19: every trainer invocation carries -a, -w and -n with the configured
\* counts, -f <model_directory>train.responses and
\* -o <model_directory><identifier>/, and nothing else but -z, which is
\* there exactly when the time flag is set, that is exactly when the
\* identifier in -o carries the tag time.
C19_TrainerParameters ==
    \A i \in CallsOf("mirt_train_EM.run_programmatically") :
        LET ps == calls[i].args
            dir == OptionValue(ps, <<"-", "o">>)
            switch == \E k \in 1..Len(ps) : ps[k] = <<"-", "z">>
        IN  /\ OptionValue(ps, <<"-", "a">>) = Str(arguments.abilities)
            /\ OptionValue(ps, <<"-", "w">>) = Str(arguments.workers)
            /\ OptionValue(ps, <<"-", "n">>) = Str(arguments.num_epochs)
            /\ OptionValue(ps, <<"-", "f">>)
                  = arguments.model_directory \o TrainResponses
            /\ dir = arguments.model_directory \o params \o <<"/">>
            /\ Len(ps) = IF switch THEN 11 ELSE 10
            /\ switch <=> arguments.time
            /\ switch <=> IsPrefix(TimeTag \o <<"_">>,
                                   AfterFirstCut(IdentifierOf(arguments, dir)))

C19_Witness ==
    /\ Called("mirt_train_EM.run_programmatically")
    /\ arguments.time
    /\ arguments.abilities = 1

\* C18: the evaluator has been invoked only after mkdir_p was called for
\* <model_directory>rocs/ in the same run.
C18_RocsEnsuredBeforeEvaluator ==
    \A j \in CallsOf("generate_predictions.load_and_simulate_assessment") :
        \E i \in CallsOf("mkdir_p") :
            i < j /\ calls[i].args = <<arguments.model_directory \o RocsName>>

====
